---- MODULE Spec2Model ----
(***************************************************************************)
(* Model of src/macros.hpp: the three macros ENSURE_INIT, EXPECTED_VOID    *)
(* and NOEXCEPT, as they act on one process.                               *)
(*                                                                         *)
(* The header is preprocessed under a set `defs` of defined configuration  *)
(* macros (NDEBUG, NOEXCEPT_ENABLED).  The calling thread then executes up *)
(* to MaxStmts statements, each one use of ENSURE_INIT or EXPECTED_VOID.   *)
(* An argument expression is modelled by its source text, by whether       *)
(* evaluating it has a side effect, and by the values successive           *)
(* evaluations yield.  Streams are sequences of string pieces; the piece   *)
(* "\n" ends a line.  abort and exit are modelled with the termination     *)
(* semantics the C++ library gives them.                                   *)
(***************************************************************************)
EXTENDS Integers, Sequences, FiniteSets, TLC

VARIABLES
    defs,       \* configuration macros defined for this build
    macros,     \* what the header's macros expand to under defs
    pc,         \* position of the calling thread
    status,     \* "running", "aborted", "exiting" (inside std::exit), "exited"
    exitCode,   \* status passed to std::exit, -1 while none
    cur,        \* the macro use being executed, or the last one executed
    evals,      \* evaluations of cur's argument expression by this use
    effects,    \* side effects performed so far by argument expressions
    stmts,      \* macro uses started by the calling thread
    out,        \* standard output, as the outside world sees it
    outBuf,     \* standard output still in the stdio buffer
    err,        \* standard error (unbuffered)
    handlers,   \* exit-time cleanups registered and not yet run
    cleanups,   \* exit-time cleanups that have run
    otherSteps  \* steps taken by another thread of the process

vars == <<defs, macros, pc, status, exitCode, cur, evals, effects, stmts,
          out, outBuf, err, handlers, cleanups, otherSteps>>

----------------------------------------------------------------------------
(* Bounds *)

MaxStmts == 2
MaxPtr == 1
MaxLine == 2
MaxHandlers == 1
MaxOther == 1

----------------------------------------------------------------------------
(* Inputs *)

ConfigMacros == {"NDEBUG", "NOEXCEPT_ENABLED"}
Files == {"main.cpp", "editor.cpp"}
Lines == 1..MaxLine
PtrVals == 0..MaxPtr                \* 0 is the null pointer
Msgs == {"disk full", "{}"}

\* A pointer-valued argument expression: a plain variable `p` yields the
\* same value every time; `it.next()` advances on every evaluation.
PtrExprs ==
    {[text |-> "p", effect |-> FALSE, vals |-> <<v, v>>] : v \in PtrVals}
    \cup
    {[text |-> "it.next()", effect |-> TRUE, vals |-> <<a, b>>] :
        a \in PtrVals, b \in PtrVals}

\* A std::expected<void, std::string>-valued argument expression.
ExpExprs ==
    {[effect |-> e, ok |-> TRUE, msg |-> ""] : e \in BOOLEAN}
    \cup
    {[effect |-> e, ok |-> FALSE, msg |-> m] : e \in BOOLEAN, m \in Msgs}

NoStmt ==
    [kind |-> "none", file |-> "", line |-> 0, text |-> "", effect |-> FALSE,
     vals |-> <<0, 0>>, ok |-> TRUE, msg |-> ""]

EnsureInitStmt(e, f, l) ==
    [kind |-> "ENSURE_INIT", file |-> f, line |-> l, text |-> e.text,
     effect |-> e.effect, vals |-> e.vals, ok |-> TRUE, msg |-> ""]

ExpectedVoidStmt(x) ==
    [kind |-> "EXPECTED_VOID", file |-> "", line |-> 0, text |-> "",
     effect |-> x.effect, vals |-> <<0, 0>>, ok |-> x.ok, msg |-> x.msg]

----------------------------------------------------------------------------
(* Preprocessing *)

\* the #else branch forgotten: the check stays in every build
ENSURE_INIT_Definition_NoElse(d) == "check"

\* #ifndef NDEBUG ... #else ... #endif around ENSURE_INIT
ENSURE_INIT_Definition(d) ==
    IF "NDEBUG" \notin d THEN "check" ELSE "(void)0"

\* #ifdef written for #ifndef
NOEXCEPT_Expansion_Ifdef(d) ==
    IF "NOEXCEPT_ENABLED" \in d THEN <<"noexcept">> ELSE <<>>

\* #ifndef NOEXCEPT_ENABLED ... #else ... #endif around NOEXCEPT
NOEXCEPT_Expansion(d) ==
    IF "NOEXCEPT_ENABLED" \notin d THEN <<"noexcept">> ELSE <<>>

Preprocess(d) ==
    [ENSURE_INIT |-> ENSURE_INIT_Definition(d), NOEXCEPT |-> NOEXCEPT_Expansion(d)]

----------------------------------------------------------------------------
(* Formatting *)

Conversions == {"%s", "%d", "%p", "{}"}

\* %p of a pointer
PtrStr(v) == IF v = 0 THEN "(nil)" ELSE "0x" \o ToString(v)

Convert(c, a) ==
    CASE c = "%d" -> ToString(a)
      [] c = "%p" -> PtrStr(a)
      [] OTHER    -> a

\* Substitution of the arguments into the conversions of a format, left to
\* right; the other pieces are copied.
RECURSIVE Format(_, _)
Format(fmt, args) ==
    IF fmt = <<>> THEN <<>>
    ELSE IF Head(fmt) \in Conversions
         THEN <<Convert(Head(fmt), Head(args))>> \o Format(Tail(fmt), Tail(args))
         ELSE <<Head(fmt)>> \o Format(Tail(fmt), args)

\* the diagnostic without its source location
DiagnosticFormat_NoLocation ==
    <<"Uninitialised pointer: ", "%s", " (value=", "%p", ")", "\n">>

\* "[%s:%d] Uninitialised pointer: %s (value=%p)\n"
DiagnosticFormat ==
    <<"[", "%s", ":", "%d", "] Uninitialised pointer: ", "%s", " (value=", "%p",
      ")", "\n">>

\* std::print written for std::println
Println_NoNewline(fmt, args) == Format(fmt, args)

\* std::println(fmt, args...): the formatted text and a newline
Println(fmt, args) == Format(fmt, args) \o <<"\n">>

\* the "{}" of std::println("{}", expected.error())
ErrorFormat == <<"{}">>

\* the argument of std::exit
ExitStatus == 1

----------------------------------------------------------------------------
(* Tests *)

\* the branches of the conditional exchanged
PtrTest_Inverted(v) == v = 0

\* (ptr) ? ... : ...
PtrTest(v) == v # 0

\* `if (expected)` written for `if (!expected)`
HasValue_Inverted(x) == ~x.ok

\* the operator bool of std::expected, as used by `!expected`
HasValue(x) == x.ok

\* one evaluation of cur's argument expression
EffectOf(s) == IF s.effect THEN 1 ELSE 0

----------------------------------------------------------------------------

Init ==
    /\ defs \in SUBSET ConfigMacros
    /\ macros = Preprocess(defs)
    /\ pc = "idle"
    /\ status = "running"
    /\ exitCode = -1
    /\ cur = NoStmt
    /\ evals = 0
    /\ effects = 0
    /\ stmts = 0
    /\ out = <<>>
    /\ outBuf = <<>>
    /\ err = <<>>
    /\ handlers \in 0..MaxHandlers
    /\ cleanups = 0
    /\ otherSteps = 0

CanStart == status = "running" /\ pc = "idle" /\ stmts < MaxStmts

\* ENSURE_INIT(ptr) in a build with NDEBUG: (void)0
EnsureInit_Release ==
    /\ CanStart
    /\ macros.ENSURE_INIT = "(void)0"
    /\ \E e \in PtrExprs, f \in Files, l \in Lines :
          cur' = EnsureInitStmt(e, f, l)
    /\ stmts' = stmts + 1
    /\ evals' = 0
    /\ UNCHANGED <<defs, macros, pc, status, exitCode, effects, out, outBuf, err,
                   handlers, cleanups, otherSteps>>

\* ENSURE_INIT(ptr) without NDEBUG: the test (ptr) ? void() : ...
EnsureInit_Test ==
    /\ CanStart
    /\ macros.ENSURE_INIT = "check"
    /\ \E e \in PtrExprs, f \in Files, l \in Lines :
          /\ cur' = EnsureInitStmt(e, f, l)
          /\ effects' = effects + EffectOf(e)
          /\ pc' = IF PtrTest(e.vals[1]) THEN "idle" ELSE "ei_fprintf"
    /\ stmts' = stmts + 1
    /\ evals' = 1
    /\ UNCHANGED <<defs, macros, status, exitCode, out, outBuf, err,
                   handlers, cleanups, otherSteps>>

\* the pointer saved by the test and reused for the diagnostic
EnsureInit_Fprintf_Cached ==
    /\ status = "running"
    /\ pc = "ei_fprintf"
    /\ err' = err \o Format(DiagnosticFormat,
                            <<cur.file, cur.line, cur.text, cur.vals[evals]>>)
    /\ pc' = "ei_abort"
    /\ UNCHANGED <<defs, macros, status, exitCode, cur, evals, effects, stmts, out,
                   outBuf, handlers, cleanups, otherSteps>>

\* ::fprintf(stderr, "...", __FILE__, __LINE__, #ptr, static_cast<const void *>(ptr))
EnsureInit_Fprintf ==
    /\ status = "running"
    /\ pc = "ei_fprintf"
    /\ evals' = evals + 1
    /\ effects' = effects + EffectOf(cur)
    /\ err' = err \o Format(DiagnosticFormat,
                            <<cur.file, cur.line, cur.text, cur.vals[evals + 1]>>)
    /\ pc' = "ei_abort"
    /\ UNCHANGED <<defs, macros, status, exitCode, cur, stmts, out, outBuf,
                   handlers, cleanups, otherSteps>>

\* termination that runs the exit-time cleanups, as std::exit would
EnsureInit_Abort_Cleanup ==
    /\ status = "running"
    /\ pc = "ei_abort"
    /\ status' = "aborted"
    /\ pc' = "ended"
    /\ cleanups' = cleanups + handlers
    /\ handlers' = 0
    /\ UNCHANGED <<defs, macros, exitCode, cur, evals, effects, stmts, out, outBuf,
                   err, otherSteps>>

\* std::abort(): the process ends at once; no exit-time cleanup runs
EnsureInit_Abort ==
    /\ status = "running"
    /\ pc = "ei_abort"
    /\ status' = "aborted"
    /\ pc' = "ended"
    /\ UNCHANGED <<defs, macros, exitCode, cur, evals, effects, stmts, out, outBuf,
                   err, handlers, cleanups, otherSteps>>

\* std::expected<void, std::string> expected = (expr);
ExpectedVoid_Eval ==
    /\ CanStart
    /\ \E x \in ExpExprs :
          /\ cur' = ExpectedVoidStmt(x)
          /\ effects' = effects + EffectOf(x)
    /\ stmts' = stmts + 1
    /\ evals' = 1
    /\ pc' = "ev_test"
    /\ UNCHANGED <<defs, macros, status, exitCode, out, outBuf, err,
                   handlers, cleanups, otherSteps>>

\* if (!expected) { ... }
ExpectedVoid_Test ==
    /\ status = "running"
    /\ pc = "ev_test"
    /\ pc' = IF HasValue(cur) THEN "idle" ELSE "ev_println"
    /\ UNCHANGED <<defs, macros, status, exitCode, cur, evals, effects, stmts,
                   out, outBuf, err, handlers, cleanups, otherSteps>>

\* the argument expression repeated in the failure branch: (expr).error()
ExpectedVoid_Println_Reevaluated ==
    /\ status = "running"
    /\ pc = "ev_println"
    /\ evals' = evals + 1
    /\ effects' = effects + EffectOf(cur)
    /\ outBuf' = outBuf \o Println(ErrorFormat, <<cur.msg>>)
    /\ pc' = "ev_exit"
    /\ UNCHANGED <<defs, macros, status, exitCode, cur, stmts, out, err, handlers,
                   cleanups, otherSteps>>

\* std::println("{}", expected.error());
ExpectedVoid_Println ==
    /\ status = "running"
    /\ pc = "ev_println"
    /\ outBuf' = outBuf \o Println(ErrorFormat, <<cur.msg>>)
    /\ pc' = "ev_exit"
    /\ UNCHANGED <<defs, macros, status, exitCode, cur, evals, effects, stmts,
                   out, err, handlers, cleanups, otherSteps>>

\* std::exit(1): the call; it never returns to the caller
ExpectedVoid_Exit ==
    /\ status = "running"
    /\ pc = "ev_exit"
    /\ status' = "exiting"
    /\ exitCode' = ExitStatus
    /\ pc' = "ended"
    /\ UNCHANGED <<defs, macros, cur, evals, effects, stmts, out, outBuf, err,
                   handlers, cleanups, otherSteps>>

\* inside std::exit: a registered function or a static object's destructor runs
Exit_RunHandler ==
    /\ status = "exiting"
    /\ handlers > 0
    /\ handlers' = handlers - 1
    /\ cleanups' = cleanups + 1
    /\ UNCHANGED <<defs, macros, pc, status, exitCode, cur, evals, effects, stmts,
                   out, outBuf, err, otherSteps>>

\* inside std::exit: the C streams are flushed and control goes to the host
Exit_Finish ==
    /\ status = "exiting"
    /\ handlers = 0
    /\ out' = out \o outBuf
    /\ outBuf' = <<>>
    /\ status' = "exited"
    /\ UNCHANGED <<defs, macros, pc, exitCode, cur, evals, effects, stmts, err,
                   handlers, cleanups, otherSteps>>

\* stdout is flushed by the library on its own (a line-buffered stream)
Stdout_Flush ==
    /\ status \in {"running", "exiting"}
    /\ outBuf # <<>>
    /\ out' = out \o outBuf
    /\ outBuf' = <<>>
    /\ UNCHANGED <<defs, macros, pc, status, exitCode, cur, evals, effects, stmts,
                   err, handlers, cleanups, otherSteps>>

\* another thread of the process runs as long as the process exists
OtherThread_Step ==
    /\ status \in {"running", "exiting"}
    /\ otherSteps < MaxOther
    /\ otherSteps' = otherSteps + 1
    /\ UNCHANGED <<defs, macros, pc, status, exitCode, cur, evals, effects, stmts,
                   out, outBuf, err, handlers, cleanups>>

Next ==
    \/ EnsureInit_Release
    \/ EnsureInit_Test
    \/ EnsureInit_Fprintf
    \/ EnsureInit_Abort
    \/ ExpectedVoid_Eval
    \/ ExpectedVoid_Test
    \/ ExpectedVoid_Println
    \/ ExpectedVoid_Exit
    \/ Exit_RunHandler
    \/ Exit_Finish
    \/ Stdout_Flush
    \/ OtherThread_Step

Spec == Init /\ [][Next]_vars

\* A use of a macro that has started runs to its end, and std::exit, once
\* called, runs to the end of the process: none of these steps waits for
\* anything.  Whether the program starts another use, and what the other
\* thread does, is not constrained.
Fairness ==
    /\ WF_vars(EnsureInit_Fprintf)
    /\ WF_vars(EnsureInit_Abort)
    /\ WF_vars(ExpectedVoid_Test)
    /\ WF_vars(ExpectedVoid_Println)
    /\ WF_vars(ExpectedVoid_Exit)
    /\ WF_vars(Exit_RunHandler)
    /\ WF_vars(Exit_Finish)

FairSpec == Spec /\ Fairness

----------------------------------------------------------------------------
(* Properties *)

Debug == "NDEBUG" \notin defs
Release == "NDEBUG" \in defs

\* the step starts a use of the macro `k`
Starts(k) == stmts' = stmts + 1 /\ cur'.kind = k

Contains(s, x) == \E i \in DOMAIN s : s[i] = x
LineCount(s) == Cardinality({i \in DOMAIN s : s[i] = "\n"})

C2_Safety ==
    (Debug /\ cur.kind = "ENSURE_INIT" /\ cur.vals[1] = 0) =>
        /\ pc \in {"ei_fprintf", "ei_abort", "ended"}
        /\ out = <<>> /\ outBuf = <<>> /\ exitCode = -1
        /\ (pc = "ei_fprintf") => (status = "running" /\ err = <<>>)
        /\ (pc = "ended") <=> (status = "aborted")
        /\ (pc # "ei_fprintf") =>
              /\ LineCount(err) = 1
              /\ err[Len(err)] = "\n"
              /\ Contains(err, cur.file)
              /\ Contains(err, ToString(cur.line))
              /\ Contains(err, cur.text)

\* C2: in a debug build, ENSURE_INIT of a null argument writes exactly one
\* line to the error stream, containing the file name, the line number and
\* the argument's text, and then aborts: the line is there before the abort,
\* nothing but the abort follows it, and the abort does follow.
C2_NullGuardDiagnosesThenAborts ==
    /\ []C2_Safety
    /\ (Debug /\ cur.kind = "ENSURE_INIT" /\ cur.vals[1] = 0) ~> (status = "aborted")

C2_Witness ==
    /\ Debug
    /\ cur.kind = "ENSURE_INIT"
    /\ cur.vals[1] = 0
    /\ status = "aborted"
    /\ LineCount(err) = 1

\* C3: in a release build a use of ENSURE_INIT, whatever its argument, is a
\* step that changes nothing a program without the use could tell: no
\* evaluation of the argument, no output, no abort, and the calling thread
\* is at the next statement.
C3_ReleaseGuardIsNoOp ==
    [][ (Release /\ Starts("ENSURE_INIT")) =>
            /\ evals' = 0
            /\ pc = "idle" /\ pc' = "idle"
            /\ UNCHANGED <<status, exitCode, effects, out, outBuf, err, handlers,
                           cleanups, otherSteps>> ]_vars

C3_Witness ==
    /\ Release
    /\ cur.kind = "ENSURE_INIT"
    /\ cur.vals[1] = 0
    /\ cur.effect
    /\ status = "running"
    /\ pc = "idle"

\* what holds at every point of a use of EXPECTED_VOID on an error
C4_Safety ==
    (cur.kind = "EXPECTED_VOID" /\ ~cur.ok) =>
        /\ err = <<>>
        /\ pc \in {"ev_test", "ev_println", "ev_exit", "ended"}
        /\ (pc \in {"ev_test", "ev_println"}) =>
              (status = "running" /\ out \o outBuf = <<>>)
        /\ (pc \in {"ev_exit", "ended"}) => (out \o outBuf = <<cur.msg, "\n">>)
        /\ (pc = "ended") <=> (status \in {"exiting", "exited"})
        /\ (pc = "ended") <=> (exitCode = 1)
        /\ (pc # "ended") => (exitCode = -1)
        /\ (status = "exited") => (out = <<cur.msg, "\n">>)

\* C4: EXPECTED_VOID of an error carrying M prints M and one newline to the
\* standard output and nothing to the error stream, and then exits with
\* status 1: the text is printed before std::exit is called, and it is all
\* of the standard output when the process has exited.
\* The process does exit.
C4_ErrorPrintsThenExits ==
    /\ []C4_Safety
    /\ (cur.kind = "EXPECTED_VOID" /\ ~cur.ok) ~> (status = "exited")

C4_Witness ==
    /\ cur.kind = "EXPECTED_VOID"
    /\ cur.msg = "{}"
    /\ status = "exited"
    /\ exitCode = 1
    /\ out = <<"{}", "\n">>

\* C5: EXPECTED_VOID of a success prints nothing and does not end the
\* process: the calling thread goes on to the next statement with the
\* streams as they were.
C5_SuccessContinues ==
    (cur.kind = "EXPECTED_VOID" /\ cur.ok) =>
        /\ pc \in {"ev_test", "idle"}
        /\ status = "running"
        /\ exitCode = -1
        /\ out = <<>> /\ outBuf = <<>> /\ err = <<>>

C5_Witness ==
    /\ cur.kind = "EXPECTED_VOID"
    /\ cur.ok
    /\ pc = "idle"
    /\ status = "running"

\* C6: a use of EXPECTED_VOID evaluates its argument expression once, when
\* it starts, and never again, on the success and on the error path: the
\* expression's side effect happens one time.
C6_ArgumentEvaluatedOnce ==
    [][ (cur'.kind = "EXPECTED_VOID") =>
            IF Starts("EXPECTED_VOID")
            THEN evals' = 1 /\ effects' = effects + EffectOf(cur')
            ELSE evals = 1 /\ evals' = 1 /\ effects' = effects ]_vars

C6_Witness ==
    /\ cur.kind = "EXPECTED_VOID"
    /\ cur.effect
    /\ ~cur.ok
    /\ status = "exited"
    /\ evals = 1
    /\ effects = 1

\* C7 as stated: once abort or exit is taken, no thread takes a further step
\* and no cleanup runs.
C7_NoStepAfterTermination ==
    [][ (status # "running") =>
            UNCHANGED <<pc, cur, stmts, evals, effects, cleanups, otherSteps>> ]_vars

\* C7: both paths are terminal.  Once abort or exit is taken the calling
\* thread runs no further statement and the process does not go back to
\* running; once the process has ended nothing changes.  abort runs no
\* cleanup; exit(1) runs the registered exit-time cleanups and flushes the
\* standard output, while other threads may still run, before the process
\* ends with status 1.
C7_TerminationIsFinal ==
    [][ /\ (status # "running") =>
              /\ status' # "running"
              /\ UNCHANGED <<pc, cur, stmts, evals, effects, err, exitCode>>
        /\ (status \in {"aborted", "exited"}) => UNCHANGED vars
        /\ (status' = "aborted") =>
              (cleanups' = 0 /\ UNCHANGED <<handlers, out, outBuf>>)
        /\ (status = "exiting" /\ status' = "exited") =>
              (handlers = 0 /\ outBuf' = <<>> /\ exitCode = 1) ]_vars

C7_Witness ==
    /\ status = "exited"
    /\ cleanups > 0
    /\ otherSteps > 0
    /\ stmts < MaxStmts

\* C9: ENSURE_INIT evaluates its argument no time in a release build, once
\* in a debug build when the value is non-null, and twice in a debug build
\* when it is null: once for the test and once for the diagnostic.
C9_GuardEvaluationCount ==
    (cur.kind = "ENSURE_INIT") =>
        /\ Release => evals = 0
        /\ (Debug /\ cur.vals[1] # 0) => evals = 1
        /\ (Debug /\ cur.vals[1] = 0) =>
              evals = (IF pc = "ei_fprintf" THEN 1 ELSE 2)
        /\ (stmts = 1 /\ cur.effect) => effects = evals
        /\ (stmts = 1 /\ ~cur.effect) => effects = 0

C9_Witness ==
    /\ cur.kind = "ENSURE_INIT"
    /\ cur.effect
    /\ cur.vals[1] = 0
    /\ status = "aborted"
    /\ evals = 2
    /\ effects = 2

\* C10: NOEXCEPT expands to `noexcept` exactly when NOEXCEPT_ENABLED is not
\* defined and to nothing exactly when it is, whether or not NDEBUG is
\* defined.
C10_NoexceptExpansion ==
    /\ (macros.NOEXCEPT = <<"noexcept">>) <=> ("NOEXCEPT_ENABLED" \notin defs)
    /\ (macros.NOEXCEPT = <<>>) <=> ("NOEXCEPT_ENABLED" \in defs)
    /\ \A d \in SUBSET ConfigMacros :
          NOEXCEPT_Expansion(d) = NOEXCEPT_Expansion(d \ {"NDEBUG"})

C10_Witness ==
    /\ Release
    /\ "NOEXCEPT_ENABLED" \notin defs
    /\ macros.NOEXCEPT = <<"noexcept">>
    /\ stmts > 0

====
